---- MODULE Spec2Model ----
(***************************************************************************)
(* A model of src/menu.py, the VanderVeg menu scraper.                     *)
(*                                                                         *)
(* A Python str is modelled as a sequence of one-character strings, so     *)
(* that trimming, lowercasing, substring search and the three regular      *)
(* expressions are computed character by character.  None is modelled as   *)
(* the empty sequence: the code only ever tests these values for           *)
(* truthiness, and both None and "" are falsy.                             *)
(*                                                                         *)
(* Spec      clean_menu_text as a line-by-line state machine                *)
(* SpecMain  the __main__ block: get_menu (get_latest_menu_image_url,      *)
(*           scrape_menu_image, clean_menu_text), get_prices,               *)
(*           format_menu_output, and the except clause                      *)
(***************************************************************************)
EXTENDS Integers, Sequences, FiniteSets, TLC

VARIABLES
    pc,           \* position in clean_menu_text, or in the __main__ block
    raw_text,     \* clean_menu_text: the argument
    lines,        \* clean_menu_text: the trimmed, non-empty lines
    idx,          \* clean_menu_text: index of the next line of the for loop
    menu,         \* clean_menu_text: the dict, as its items in insertion order
    current_day,  \* clean_menu_text: the open day label, or None
    buffer,       \* clean_menu_text: the lines buffered for the open day
    imgs,         \* the src attributes of the homepage's <img> tags
    img_k,        \* get_latest_menu_image_url: index of the next <img>
    image_url,    \* get_menu: menu_image_url
    prices,       \* __main__: the pair get_prices returned
    output,       \* __main__: what was printed
    raised,       \* the exception raised, "none" while there is none
    log,          \* the messages logged at ERROR level, in order
    exit_status   \* the status the process ended with, -1 while it runs

vars == <<pc, raw_text, lines, idx, menu, current_day, buffer, imgs, img_k,
          image_url, prices, output, raised, log, exit_status>>

normVars == <<raw_text, lines, idx, menu, current_day, buffer>>
mainVars == <<imgs, img_k, image_url, prices, output, raised, log, exit_status>>

None == <<>>

(***************************************************************************)
(* Bounds of the model.                                                    *)
(***************************************************************************)
MaxLines == 6        \* lines of an input drawn from DayPool
MaxTextLines == 3    \* lines of an input drawn from TextPool
MaxImgs == 2         \* <img> tags on the homepage

(***************************************************************************)
(* Characters and strings.                                                 *)
(***************************************************************************)
UpperChars == <<"A","B","C","D","E","F","G","H","I","J","K","L","M","N","O","P","Q","R","S","T","U","V","W","X","Y","Z">>
LowerChars == <<"a","b","c","d","e","f","g","h","i","j","k","l","m","n","o","p","q","r","s","t","u","v","w","x","y","z">>
Digits == {"0", "1", "2", "3", "4", "5", "6", "7", "8", "9"}
Range(s) == {s[i] : i \in 1..Len(s)}

\* the regex class \w
WordChars == Range(UpperChars) \cup Range(LowerChars) \cup Digits \cup {"_"}
\* the regex class \s and the characters str.strip() removes
SpaceChars == {" ", "\t", "\n", "\r"}

IsSpace(c) == c \in SpaceChars
\* the line boundaries of str.splitlines
IsLineBreak(c) == c \in {"\n", "\r"}

LowerChar(c) ==
    IF c \in Range(UpperChars)
        THEN LowerChars[CHOOSE i \in 1..Len(UpperChars) : UpperChars[i] = c]
        ELSE c
\* str.lower
Lower(s) == [i \in 1..Len(s) |-> LowerChar(s[i])]

\* s[p:] in Python terms, p counted from 1
From(s, p) == SubSeq(s, p, Len(s))

\* s.startswith(prefix)
StartsWith(s, prefix) ==
    /\ Len(prefix) <= Len(s)
    /\ SubSeq(s, 1, Len(prefix)) = prefix

\* s.endswith(suffix)
EndsWith(s, suffix) ==
    /\ Len(suffix) <= Len(s)
    /\ SubSeq(s, Len(s) - Len(suffix) + 1, Len(s)) = suffix

\* the first position from p on at which `sub` occurs in s, 0 when there is none
RECURSIVE Find(_, _, _)
Find(s, sub, p) ==
    IF p + Len(sub) - 1 > Len(s) THEN 0
    ELSE IF SubSeq(s, p, p + Len(sub) - 1) = sub THEN p
    ELSE Find(s, sub, p + 1)

\* sub in s
Contains(s, sub) == Find(s, sub, 1) # 0

\* s.strip()
RECURSIVE LStrip(_)
LStrip(s) == IF s # <<>> /\ IsSpace(Head(s)) THEN LStrip(Tail(s)) ELSE s
RECURSIVE RStrip(_)
RStrip(s) ==
    IF s # <<>> /\ IsSpace(s[Len(s)]) THEN RStrip(SubSeq(s, 1, Len(s) - 1)) ELSE s
Strip(s) == LStrip(RStrip(s))

\* s.replace(old, new): the non-overlapping occurrences, left to right
RECURSIVE Replace(_, _, _)
Replace(s, old, new) ==
    LET p == Find(s, old, 1)
    IN  IF p = 0 THEN s
        ELSE SubSeq(s, 1, p - 1) \o new \o Replace(From(s, p + Len(old)), old, new)

\* sep.join(parts)
RECURSIVE Join(_, _)
Join(parts, sep) ==
    IF parts = <<>> THEN <<>>
    ELSE IF Len(parts) = 1 THEN parts[1]
    ELSE parts[1] \o sep \o Join(Tail(parts), sep)

\* s.splitlines(): "\r\n" is one boundary, and a final boundary opens no line
RECURSIVE SplitFrom(_, _, _)
SplitFrom(s, start, p) ==
    IF p > Len(s) THEN (IF start > Len(s) THEN <<>> ELSE <<SubSeq(s, start, Len(s))>>)
    ELSE IF IsLineBreak(s[p]) THEN
        LET n == IF s[p] = "\r" /\ p < Len(s) /\ s[p + 1] = "\n" THEN 2 ELSE 1
        IN  <<SubSeq(s, start, p - 1)>> \o SplitFrom(s, p + n, p + n)
    ELSE SplitFrom(s, start, p + 1)
SplitLines(s) == SplitFrom(s, 1, 1)

\* [line.strip() for line in raw_text.splitlines() if line.strip()]
RECURSIVE StripAll(_)
StripAll(ls) ==
    IF ls = <<>> THEN <<>>
    ELSE LET t == Strip(Head(ls))
         IN  (IF t # <<>> THEN <<t>> ELSE <<>>) \o StripAll(Tail(ls))
TrimmedLines(text) == StripAll(SplitLines(text))

\* the number of leading characters of s, at most `most`, that are in class
RunLen(s, class, most) ==
    LET top == IF Len(s) < most THEN Len(s) ELSE most
    IN  CHOOSE n \in 0..top :
            /\ \A j \in 1..n : s[j] \in class
            /\ n = top \/ s[n + 1] \notin class

(***************************************************************************)
(* The module-level patterns.                                              *)
(***************************************************************************)
HOMEPAGE_URL == <<"h","t","t","p","s",":","/","/","v","a","n","d","e","r","v","e","g",".","s","i">>

\* \d{1,2}: the most digits a day or month group takes
DayDigits == 2

\* the pattern matched at the start of the line, its digit groups taking at
\* most `most` digits: None, or the groups <<day_name, day, month>>.
\* \w+ and \s* cannot give characters back ("," is no word character and a
\* digit no space), and \d{1,2} backed off to one digit meets a digit where
\* the dot must be, so the greedy reading is the only one.
DayMatchDigits(line, most) ==
    LET w  == RunLen(line, WordChars, Len(line))
        r1 == From(line, w + 1)
        r2 == From(r1, 2)
        sp == RunLen(r2, SpaceChars, Len(r2))
        r3 == From(r2, sp + 1)
        d  == RunLen(r3, Digits, most)
        r4 == From(r3, d + 1)
        r5 == From(r4, 2)
        m  == RunLen(r5, Digits, most)
    IN  IF /\ w >= 1
           /\ r1 # <<>> /\ r1[1] = ","
           /\ d >= 1
           /\ r4 # <<>> /\ r4[1] = "."
           /\ m >= 1
        THEN <<SubSeq(line, 1, w), SubSeq(r3, 1, d), SubSeq(r5, 1, m)>>
        ELSE None
\* the pattern with \d in place of \d{1,2}
DayMatchOneDigit(line) == DayMatchDigits(line, 1)
\* DAY_PATTERN.match(line)
DAY_PATTERN_match(line) == DayMatchDigits(line, DayDigits)

\* whether all of s is \d+(?:,\d+)*\s*
RECURSIVE IsDigitGroups(_)
IsDigitGroups(s) ==
    LET d == RunLen(s, Digits, Len(s))
        r == From(s, d + 1)
    IN  /\ d >= 1
        /\ \/ \A j \in 1..Len(r) : IsSpace(r[j])
           \/ r # <<>> /\ r[1] = "," /\ IsDigitGroups(Tail(r))

\* the pattern without its leading \s*, at position p of s
AllergenMatchAtNoSpace(s, p) == IsDigitGroups(From(s, p))
\* whether ALLERGEN_PATTERN matches at position p of s: \s*, then the groups
AllergenMatchAt(s, p) ==
    LET r  == From(s, p)
        sp == RunLen(r, SpaceChars, Len(r))
    IN  IsDigitGroups(From(r, sp + 1))

\* ALLERGEN_PATTERN.sub("", line): the search takes the leftmost position at
\* which the pattern matches; the match runs to the end of the line, so it is
\* the only one
RECURSIVE AllergenSubFrom(_, _)
AllergenSubFrom(s, p) ==
    IF p > Len(s) THEN s
    ELSE IF AllergenMatchAt(s, p) THEN SubSeq(s, 1, p - 1)
    ELSE AllergenSubFrom(s, p + 1)
ALLERGEN_PATTERN_sub(line) == AllergenSubFrom(line, 1)

JUNK_LINES == { <<"v","a","n","d","e","r","v","e","g">>, <<"v","a","n","d","e","r","u","e","g">>, <<"u","a","n","d","e","r","u","e","g">>, <<"u","a","n","d","e","r","v","e","g">> }
ALERGENI == <<"A","L","E","R","G","E","N","I">>

\* the junk test by set membership, as earlier revisions had it
IsJunkExact(line) ==
    \/ Lower(line) \in JUNK_LINES
    \/ StartsWith(line, ALERGENI)
\* any(junk in line_lower for junk in JUNK_LINES) or line.startswith("ALERGENI")
IsJunk(line) ==
    \/ \E junk \in JUNK_LINES : Contains(Lower(line), junk)
    \/ StartsWith(line, ALERGENI)

(***************************************************************************)
(* clean_menu_text.                                                        *)
(***************************************************************************)
\* the position of key k among the dict's items, 0 when it is absent
KeyIndex(m, k) ==
    IF \E i \in 1..Len(m) : m[i].day = k
        THEN CHOOSE i \in 1..Len(m) : m[i].day = k
        ELSE 0

\* an assignment that moves a key already present to the end
DictSetMoveToEnd(m, k, v) ==
    SelectSeq(m, LAMBDA e : e.day # k) \o <<[day |-> k, dishes |-> v]>>
\* menu[k] = v: a new key goes last, a key already present keeps its place
DictSet(m, k, v) ==
    IF KeyIndex(m, k) = 0
        THEN Append(m, [day |-> k, dishes |-> v])
        ELSE [m EXCEPT ![KeyIndex(m, k)] = [day |-> k, dishes |-> v]]

Keys(m) == {m[i].day : i \in 1..Len(m)}

\* the join taken over the whole buffer instead of buffer[1:]
MainWithSoup(buf) ==
    IF Len(buf) > 1 THEN Replace(Strip(Join(buf, <<" ">>)), <<" ", ",">>, <<",">>)
    ELSE <<>>
\* the join without the replace
MainNoRepair(buf) ==
    IF Len(buf) > 1 THEN Strip(Join(Tail(buf), <<" ">>)) ELSE <<>>
\* the main-dish text of a flush
MainDish(buf) ==
    IF Len(buf) > 1 THEN Replace(Strip(Join(Tail(buf), <<" ">>)), <<" ", ",">>, <<",">>)
    ELSE <<>>

\* process_buffer guarded by `if current_day:` alone
ProcessBufferStoreEmpty(m, day, buf) ==
    [menu   |-> IF day # None
                    THEN DictSet(m, day, <<IF buf # <<>> THEN buf[1] ELSE <<>>,
                                           MainDish(buf)>>)
                    ELSE m,
     buffer |-> <<>>]
\* process_buffer with buffer.clear() inside the if
ProcessBufferKeep(m, day, buf) ==
    IF day # None /\ buf # <<>>
        THEN [menu |-> DictSet(m, day, <<buf[1], MainDish(buf)>>), buffer |-> <<>>]
        ELSE [menu |-> m, buffer |-> buf]
\* process_buffer: the dict and the buffer it leaves
ProcessBuffer(m, day, buf) ==
    [menu   |-> IF day # None /\ buf # <<>>
                    THEN DictSet(m, day, <<buf[1], MainDish(buf)>>)
                    ELSE m,
     buffer |-> <<>>]

\* f"{day_name}, {day}. {month}."
DayLabel(groups) ==
    groups[1] \o <<",", " ">> \o groups[2] \o <<".", " ">> \o groups[3] \o <<".">>

\* the else branch of the loop body: what the buffer becomes
AppendClean(buf, line) ==
    LET clean_line == ALLERGEN_PATTERN_sub(line)
    IN  IF clean_line # <<>> THEN Append(buf, clean_line) ELSE buf

\* one pass of the for loop over a state [menu, current_day, buffer]
LoopBody(st, line) ==
    IF IsJunk(line) THEN st
    ELSE IF DAY_PATTERN_match(line) # None THEN
        LET pb == ProcessBuffer(st.menu, st.current_day, st.buffer)
        IN  [menu |-> pb.menu,
             current_day |-> DayLabel(DAY_PATTERN_match(line)),
             buffer |-> pb.buffer]
    ELSE [st EXCEPT !.buffer = AppendClean(st.buffer, line)]

RECURSIVE LoopOver(_, _)
LoopOver(st, ls) ==
    IF ls = <<>> THEN st ELSE LoopOver(LoopBody(st, Head(ls)), Tail(ls))

\* clean_menu_text as a function of its lines, and of its argument
CleanLines(ls) ==
    LET st == LoopOver([menu |-> <<>>, current_day |-> None, buffer |-> <<>>], ls)
    IN  ProcessBuffer(st.menu, st.current_day, st.buffer).menu
CleanMenuText(text) == CleanLines(TrimmedLines(text))

(***************************************************************************)
(* The inputs of the model.                                                *)
(***************************************************************************)
\* day headers and dish lines: inputs long enough for a label to come twice
DayPool ==
    { <<"T","o","r","e","k",","," ","3",".","6",".">>,
      <<"S","r","e","d","a",","," ","4",".","6",".">>,
      <<"J","u","h","a"," ","A">> }

\* lines as the OCR engine gives them, untrimmed
TextPool ==
    { <<"V","a","n","d","e","r","V","e","g","\r","\n","\t">>,
      <<" ","x","U","A","N","D","E","R","U","E","G",","," ","1",".","2",".">>,
      <<"A","L","E","R","G","E","N","I",":"," ","1"," ","g","l","u","t","e","n">>,
      <<"P","o","n","e","d","e","l","j","e","k",","," ","2",".","6","."," ","n","e","k","a","j">>,
      <<"T","o","r","e","k",",","1","3",".","6">>,
      <<"J","u","h","a"," ","A">>,
      <<"G","l","a","v","n","a"," ","B"," ",",","C">>,
      <<"G","o","v","e","j","a"," ","o","b","a","r","a"," ","1",",","2",",","7">>,
      <<"1",",","2">>,
      <<",","E"," "," ",",","D"," ","3"," ">>,
      <<"P","e","t",","," ","1","2","3",".","4">> }

SeqsUpTo(S, n) == UNION {[1..k -> S] : k \in 0..n}

\* '\n'.join(results), as scrape_menu_image builds the text
OcrTexts ==
    {Join(ls, <<"\n">>) : ls \in SeqsUpTo(DayPool, MaxLines) \cup SeqsUpTo(TextPool, MaxTextLines)}

(***************************************************************************)
(* Spec: clean_menu_text, one action per branch of its loop.               *)
(***************************************************************************)
mainIdle ==
    /\ imgs = <<>> /\ img_k = 0 /\ image_url = None /\ prices = <<None, None>>
    /\ output = None /\ raised = "none" /\ log = <<>> /\ exit_status = -1

Init ==
    /\ pc = "start"
    /\ raw_text \in OcrTexts
    /\ lines = <<>>
    /\ idx = 0
    /\ menu = <<>>
    /\ current_day = None
    /\ buffer = <<>>
    /\ mainIdle

\* lines 121-124
Start ==
    /\ pc = "start"
    /\ lines' = TrimmedLines(raw_text)
    /\ menu' = <<>>
    /\ current_day' = None
    /\ buffer' = <<>>
    /\ idx' = 1
    /\ pc' = "loop"
    /\ UNCHANGED <<raw_text, mainVars>>

\* lines 135-140: a junk line
SkipJunk ==
    /\ pc = "loop"
    /\ idx <= Len(lines)
    /\ IsJunk(lines[idx])
    /\ idx' = idx + 1
    /\ UNCHANGED <<pc, raw_text, lines, menu, current_day, buffer, mainVars>>

\* lines 142-149: a day header
DayHeader ==
    /\ pc = "loop"
    /\ idx <= Len(lines)
    /\ ~IsJunk(lines[idx])
    /\ DAY_PATTERN_match(lines[idx]) # None
    /\ LET pb == ProcessBuffer(menu, current_day, buffer)
       IN  /\ menu' = pb.menu
           /\ buffer' = pb.buffer
    /\ current_day' = DayLabel(DAY_PATTERN_match(lines[idx]))
    /\ idx' = idx + 1
    /\ UNCHANGED <<pc, raw_text, lines, mainVars>>

\* lines 150-153: any other line
Content ==
    /\ pc = "loop"
    /\ idx <= Len(lines)
    /\ ~IsJunk(lines[idx])
    /\ DAY_PATTERN_match(lines[idx]) = None
    /\ buffer' = AppendClean(buffer, lines[idx])
    /\ idx' = idx + 1
    /\ UNCHANGED <<pc, raw_text, lines, menu, current_day, mainVars>>

\* lines 155-157: the last flush and the return
Finish ==
    /\ pc = "loop"
    /\ idx > Len(lines)
    /\ LET pb == ProcessBuffer(menu, current_day, buffer)
       IN  /\ menu' = pb.menu
           /\ buffer' = pb.buffer
    /\ pc' = "done"
    /\ UNCHANGED <<raw_text, lines, idx, current_day, mainVars>>

Next == Start \/ SkipJunk \/ DayHeader \/ Content \/ Finish

Spec == Init /\ [][Next]_vars

(***************************************************************************)
(* SpecMain: the __main__ block and the functions it calls.                *)
(***************************************************************************)
\* the src attributes an <img> of the homepage may carry ("" when it has none)
SrcPool ==
    { <<"h","t","t","p","s",":","/","/","v","a","n","d","e","r","v","e","g",".","s","i","/","i","m","g","/","M","e","n","i","-","2","3",".","J","P","G">>,
      <<"/","w","p","/","m","e","n","i",".","j","p","e","g">>,
      <<"m","e","n","i","/","t","e","d","e","n","s","k","i",".","j","p","g">>,
      <<"i","m","g","/","l","o","g","o",".","p","n","g">>,
      <<"/","i","m","g","/","m","e","n","i",".","p","n","g">>,
      <<"h","t","t","p","-","i","m","g","/","m","e","n","i",".","j","p","g">>,
      <<"/","/","c","d","n",".","s","i","/","m","e","n","i",".","j","p","g">>,
      <<>> }

\* the texts the OCR engine may read off the image
MainTexts ==
    { <<>>,
      <<"V","a","n","d","e","r","V","e","g","\n","P","o","n","e","d","e","l","j","e","k",","," ","2",".","6",".","\n","G","o","v","e","j","a"," ","o","b","a","r","a"," ","1",",","2","\n","P","i","s","a","n","a"," ","z","e","l","e","n","j","a","v","a"," ","z"," ","r","i","z","o","m"," ","3",",","6",",","9","\n","A","L","E","R","G","E","N","I",":"," ","1"," ","g","l","u","t","e","n">>,
      <<"T","o","r","e","k",","," ","3",".","6",".","\n","J","u","h","a"," ","A">> }

\* the amounts get_prices may find on the homepage (the euro sign written E)
PriceTexts == {None, <<"3",",","5","0","E">>, <<"9",".","9","0","E">>}

\* line 58: "meni" in src.lower() and src.lower().endswith((".jpg", ".jpeg"))
IsMenuImage(src) ==
    /\ Contains(Lower(src), <<"m","e","n","i">>)
    /\ EndsWith(Lower(src), <<".","j","p","g">>) \/ EndsWith(Lower(src), <<".","j","p","e","g">>)

\* lines 59-62: the URL returned for the selected src
ResolveUrl(src) ==
    IF StartsWith(src, <<"h","t","t","p">>) THEN src
    ELSE HOMEPAGE_URL \o (IF StartsWith(src, <<"/">>) THEN src ELSE <<"/">> \o src)

\* format_menu_output
PriceSuffix(price) == IF price # None THEN <<" ","(">> \o price \o <<")">> ELSE <<>>
RECURSIVE DayLines(_, _)
DayLines(m, pr) ==
    IF m = <<>> THEN <<>>
    ELSE << m[1].day,
            <<"J","u","h","a",":"," ">> \o m[1].dishes[1] \o PriceSuffix(pr[1]),
            <<"G","l","a","v","n","a"," ","j","e","d",":"," ">> \o m[1].dishes[2] \o PriceSuffix(pr[2]),
            <<>> >> \o DayLines(Tail(m), pr)
FormatMenuOutput(m, pr) ==
    Join(<< <<"-","-","-"," ","V","a","n","d","e","r","V","e","g"," ","M","e","n","u"," ","-","-","-","\n">> >> \o DayLines(m, pr), <<"\n">>)

normIdle ==
    /\ raw_text = <<>> /\ lines = <<>> /\ idx = 0 /\ menu = <<>>
    /\ current_day = None /\ buffer = <<>>

InitMain ==
    /\ pc = "main"
    /\ imgs \in SeqsUpTo(SrcPool, MaxImgs)
    /\ img_k = 0
    /\ image_url = None
    /\ prices = <<None, None>>
    /\ output = None
    /\ raised = "none"
    /\ log = <<>>
    /\ exit_status = -1
    /\ normIdle

\* lines 47-53 and 65-67: the homepage is fetched, or the request fails, is
\* logged and raised again
FetchHomepage ==
    /\ pc = "main"
    /\ \/ /\ img_k' = 1
          /\ pc' = "scan"
          /\ UNCHANGED <<raised, log>>
       \/ /\ raised' = "RequestException"
          /\ log' = Append(log, "Error fetching website")
          /\ pc' = "get_menu_except"
          /\ UNCHANGED img_k
    /\ UNCHANGED <<imgs, image_url, prices, output, exit_status, normVars>>

\* lines 56-58: an <img> that is not the menu image
ScanSkip ==
    /\ pc = "scan"
    /\ img_k <= Len(imgs)
    /\ ~IsMenuImage(imgs[img_k])
    /\ img_k' = img_k + 1
    /\ UNCHANGED <<pc, imgs, image_url, prices, output, raised, log, exit_status, normVars>>

\* lines 58-62 and 220-221: the first menu image is selected
ScanSelect ==
    /\ pc = "scan"
    /\ img_k <= Len(imgs)
    /\ IsMenuImage(imgs[img_k])
    /\ image_url' = ResolveUrl(imgs[img_k])
    /\ pc' = "reader"
    /\ UNCHANGED <<imgs, img_k, prices, output, raised, log, exit_status, normVars>>

\* line 64: no <img> qualified
NotFound ==
    /\ pc = "scan"
    /\ img_k > Len(imgs)
    /\ raised' = "ValueError"
    /\ pc' = "get_menu_except"
    /\ UNCHANGED <<imgs, img_k, image_url, prices, output, log, exit_status, normVars>>

\* line 224: the OCR reader is built, or easyocr raises
CreateReader ==
    /\ pc = "reader"
    /\ \/ /\ pc' = "scrape"
          /\ UNCHANGED raised
       \/ /\ raised' = "Exception"
          /\ pc' = "get_menu_except"
    /\ UNCHANGED <<imgs, img_k, image_url, prices, output, log, exit_status, normVars>>

\* lines 90-107 and 226: scrape_menu_image
ScrapeImage ==
    /\ pc = "scrape"
    /\ \/ /\ raw_text' \in MainTexts
          /\ pc' = "clean"
          /\ UNCHANGED <<raised, log>>
       \/ /\ raised' = "RequestException"
          /\ log' = Append(log, "Error downloading image")
          /\ pc' = "get_menu_except"
          /\ UNCHANGED raw_text
       \/ /\ raised' = "ValueError"
          /\ log' = Append(log, "Error processing image")
          /\ pc' = "get_menu_except"
          /\ UNCHANGED raw_text
    /\ UNCHANGED <<lines, idx, menu, current_day, buffer,
                   imgs, img_k, image_url, prices, output, exit_status>>

\* lines 229 and 238: clean_menu_text(menu_text), returned to __main__
CleanText ==
    /\ pc = "clean"
    /\ menu' = CleanMenuText(raw_text)
    /\ pc' = "prices"
    /\ UNCHANGED <<raw_text, lines, idx, current_day, buffer, mainVars>>

\* lines 168-186 and 239: get_prices absorbs every failure
GetPrices ==
    /\ pc = "prices"
    /\ \/ /\ prices' \in PriceTexts \X PriceTexts
          /\ UNCHANGED log
       \/ /\ prices' = <<None, None>>
          /\ \E msg \in {"Error fetching website", "Error parsing prices"} :
                log' = Append(log, msg)
    /\ pc' = "format"
    /\ UNCHANGED <<imgs, img_k, image_url, output, raised, exit_status, normVars>>

\* lines 242-243, and the end of the script
FormatAndPrint ==
    /\ pc = "format"
    /\ output' = FormatMenuOutput(menu, prices)
    /\ exit_status' = 0
    /\ pc' = "exited"
    /\ UNCHANGED <<imgs, img_k, image_url, prices, raised, log, normVars>>

\* lines 230-232: get_menu logs and raises again
GetMenuExcept ==
    /\ pc = "get_menu_except"
    /\ log' = Append(log, "Error getting menu")
    /\ pc' = "main_except"
    /\ UNCHANGED <<imgs, img_k, image_url, prices, output, raised, exit_status, normVars>>

\* lines 244-245: __main__ logs the error; the script then ends as any script
\* that ran to its last line does
MainExcept ==
    /\ pc = "main_except"
    /\ log' = Append(log, "Error")
    /\ exit_status' = 0
    /\ pc' = "exited"
    /\ UNCHANGED <<imgs, img_k, image_url, prices, output, raised, normVars>>

NextMain ==
    \/ FetchHomepage \/ ScanSkip \/ ScanSelect \/ NotFound \/ CreateReader
    \/ ScrapeImage \/ CleanText \/ GetPrices \/ FormatAndPrint
    \/ GetMenuExcept \/ MainExcept

SpecMain == InitMain /\ [][NextMain]_vars

(***************************************************************************)
(* The vocabulary of the claims.  These definitions read the input lines   *)
(* the way the specification describes them; they use none of the          *)
(* operators that model the regular expressions, the junk test or the      *)
(* loop of clean_menu_text.                                                *)
(***************************************************************************)
\* the line contains a logo misreading in any case, or starts with ALERGENI
JunkLine(line) ==
    \/ \E w \in JUNK_LINES : \E i \in 1..Len(line) :
          /\ i + Len(w) - 1 <= Len(line)
          /\ \A j \in 1..Len(w) : LowerChar(line[i + j - 1]) = w[j]
    \/ /\ Len(line) >= Len(ALERGENI)
       /\ \A j \in 1..Len(ALERGENI) : line[j] = ALERGENI[j]

\* the line reads: a word of c-1 characters, a comma, s spaces, a day number
\* of d digits, a dot, a month number of m digits
HeaderFits(line, c, s, d, m) ==
    /\ c >= 2
    /\ c + s + d + 1 + m <= Len(line)
    /\ line[c] = ","
    /\ \A j \in 1..(c - 1) : line[j] \in WordChars
    /\ \A j \in (c + 1)..(c + s) : line[j] \in SpaceChars
    /\ \A j \in (c + s + 1)..(c + s + d) : line[j] \in Digits
    /\ line[c + s + d + 1] = "."
    /\ \A j \in (c + s + d + 2)..(c + s + d + 1 + m) : line[j] \in Digits

\* the line starts with `Weekday, d.m`
HasDayPrefix(line) ==
    \E c \in 2..Len(line) :
        /\ line[c] = ","
        /\ \E s \in 0..(Len(line) - c) : \E d \in 1..2 : \E m \in 1..2 :
              HeaderFits(line, c, s, d, m)

\* "<weekday>, <day>. <month>." of a line that starts with `Weekday, d.m`,
\* the month number taking a second digit when there is one
LabelOf(line) ==
    LET c == CHOOSE c \in 2..Len(line) :
                /\ line[c] = ","
                /\ \E s \in 0..(Len(line) - c) : \E d \in 1..2 : \E m \in 1..2 :
                      HeaderFits(line, c, s, d, m)
        s == CHOOSE s \in 0..(Len(line) - c) :
                \E d \in 1..2 : \E m \in 1..2 : HeaderFits(line, c, s, d, m)
        d == CHOOSE d \in 1..2 : \E m \in 1..2 : HeaderFits(line, c, s, d, m)
        m == IF HeaderFits(line, c, s, d, 2) THEN 2 ELSE 1
    IN  SubSeq(line, 1, c - 1) \o <<",", " ">>
            \o SubSeq(line, c + s + 1, c + s + d) \o <<".", " ">>
            \o SubSeq(line, c + s + d + 2, c + s + d + 1 + m) \o <<".">>

\* the length of the run of characters of `class` that ends at position e
RunBack(s, e, class) ==
    CHOOSE n \in 0..e :
        /\ \A j \in (e - n + 1)..e : s[j] \in class
        /\ n = e \/ s[e - n] \notin class

\* s[p..] being digit groups: where the comma-separated groups before it start
RECURSIVE GroupsStart(_, _)
GroupsStart(s, p) ==
    IF p >= 3 /\ s[p - 1] = "," /\ s[p - 2] \in Digits
        THEN GroupsStart(s, p - 1 - RunBack(s, p - 2, Digits))
        ELSE p

\* the trimmed line without its trailing run of comma-separated digit groups
\* and the whitespace before that run, read from the end of the line
WithoutSuffix(line) ==
    LET n == RunBack(line, Len(line), Digits)
        p == GroupsStart(line, Len(line) - n + 1)
    IN  IF n = 0 THEN line
        ELSE SubSeq(line, 1, p - 1 - RunBack(line, p - 1, SpaceChars))

\* s without the spaces that stand right before a comma
RECURSIVE DropSpaceBeforeComma(_)
DropSpaceBeforeComma(s) ==
    IF Len(s) < 2 THEN s
    ELSE IF s[1] = " " /\ s[2] = "," THEN DropSpaceBeforeComma(Tail(s))
    ELSE <<s[1]>> \o DropSpaceBeforeComma(Tail(s))

\* the lines joined with single spaces
RECURSIVE SpaceJoined(_)
SpaceJoined(ls) ==
    IF ls = <<>> THEN <<>>
    ELSE IF Len(ls) = 1 THEN ls[1]
    ELSE SpaceJoined(SubSeq(ls, 1, Len(ls) - 1)) \o <<" ">> \o ls[Len(ls)]

\* the lines as the specification reads them: each line's kind, the label
\* of a header, and the text a content line leaves
Reading(ls) ==
    [i \in 1..Len(ls) |->
        IF JunkLine(ls[i]) THEN [kind |-> "junk", label |-> <<>>, text |-> <<>>]
        ELSE IF HasDayPrefix(ls[i])
            THEN [kind |-> "header", label |-> LabelOf(ls[i]), text |-> <<>>]
        ELSE [kind |-> "content", label |-> <<>>, text |-> WithoutSuffix(ls[i])]]

\* the positions of the day headers among the lines
HeaderIdx(rd) == {i \in DOMAIN rd : rd[i].kind = "header"}

\* the position of the next header after h, or one past the last line
NextHeader(rd, h) ==
    IF \E j \in DOMAIN rd : j > h /\ rd[j].kind = "header"
        THEN CHOOSE j \in DOMAIN rd :
                /\ j > h /\ rd[j].kind = "header"
                /\ \A k \in (h + 1)..(j - 1) : rd[k].kind # "header"
        ELSE Len(rd) + 1

\* the retained content lines between header h and the next header: no junk
\* lines, each without its allergen suffix, none of which nothing remains
Retained(rd, h) ==
    LET seg  == SubSeq(rd, h + 1, NextHeader(rd, h) - 1)
        kept == SelectSeq(seg, LAMBDA r : r.kind = "content" /\ r.text # <<>>)
    IN  [i \in 1..Len(kept) |-> kept[i].text]

\* the headers that carry `label`, and those of them with retained content
HeadersOf(rd, label) == {h \in HeaderIdx(rd) : rd[h].label = label}
FilledOf(rd, label) == {h \in HeadersOf(rd, label) : Retained(rd, h) # <<>>}
Least(S) == CHOOSE x \in S : \A y \in S : x <= y
Greatest(S) == CHOOSE x \in S : \A y \in S : x >= y

\* what the dict holds under `day`, <<>> when it holds nothing
EntryOf(m, day) ==
    IF \E i \in 1..Len(m) : m[i].day = day
        THEN m[CHOOSE i \in 1..Len(m) : m[i].day = day].dishes
        ELSE <<>>

\* a step that flushes a non-empty buffer under an open day label
Flushing ==
    /\ pc = "loop"
    /\ current_day # None
    /\ buffer # <<>>
    /\ buffer' = <<>>

\* a step of the loop over a line that is no junk line
LoopStep == pc = "loop" /\ idx <= Len(lines) /\ idx' = idx + 1

(***************************************************************************)
(* C1                                                                      *)
(***************************************************************************)
\* C1 as stated: once the text is processed, the label of every day header
\* that is followed by no retained content line before the next header (or
\* the end) is no key of the mapping.
C1_NoKeyForEmptyDay ==
    LET rd == Reading(lines) IN
    pc = "done" =>
        \A h \in HeaderIdx(rd) :
            Retained(rd, h) = <<>> => rd[h].label \notin Keys(menu)

\* C1 as amended: a day header followed by no retained content line adds no
\* entry, so its label is no key of the mapping unless another header with the
\* same label is followed by retained content; and no entry has an empty soup.
C1_NoKeyUnlessFilledElsewhere ==
    LET rd == Reading(lines) IN
    pc = "done" =>
        /\ \A h \in HeaderIdx(rd) :
              FilledOf(rd, rd[h].label) = {}
                  => rd[h].label \notin Keys(menu)
        /\ \A i \in 1..Len(menu) : menu[i].dishes[1] # <<>>

\* a finished run with an empty day that got no entry beside a day that got one
C1_Witness ==
    LET rd == Reading(lines) IN
    /\ pc = "done"
    /\ menu # <<>>
    /\ \E h \in HeaderIdx(rd) :
          Retained(rd, h) = <<>> /\ rd[h].label \notin Keys(menu)

(***************************************************************************)
(* C2                                                                      *)
(***************************************************************************)
\* C2 as stated: the mapping holds at most one entry per day label, and its
\* entries come in the order in which their labels first appear as headers.
C2_OrderOfFirstHeader ==
    LET rd == Reading(lines) IN
    pc = "done" =>
        /\ Cardinality(Keys(menu)) = Len(menu)
        /\ \A i, j \in 1..Len(menu) :
              i < j => Least(HeadersOf(rd, menu[i].day))
                         < Least(HeadersOf(rd, menu[j].day))

\* C2 as amended: the mapping holds exactly one entry per day label that has a
\* header followed by retained content, and its entries come in the order of
\* the first such header of each label.
C2_OrderOfFirstFilledHeader ==
    LET rd == Reading(lines) IN
    pc = "done" =>
        /\ Cardinality(Keys(menu)) = Len(menu)
        /\ Keys(menu) = {rd[h].label :
                            h \in {g \in HeaderIdx(rd) : Retained(rd, g) # <<>>}}
        /\ \A i, j \in 1..Len(menu) :
              i < j => Least(FilledOf(rd, menu[i].day))
                         < Least(FilledOf(rd, menu[j].day))

\* a finished run whose label comes twice as a header, first without content,
\* and whose entries are not in the order of the labels' first headers
C2_Witness ==
    LET rd == Reading(lines) IN
    /\ pc = "done"
    /\ \E i, j \in 1..Len(menu) :
          /\ i < j
          /\ Least(HeadersOf(rd, menu[i].day)) > Least(HeadersOf(rd, menu[j].day))
          /\ Cardinality(HeadersOf(rd, menu[j].day)) >= 2

(***************************************************************************)
(* C3                                                                      *)
(***************************************************************************)
\* C3 as stated: every flush of a non-empty buffer under an open day label
\* stores exactly [first buffered line, the remaining lines joined with single
\* spaces], and [line, ""] for a single line.
C3_FlushStoresPlainJoin ==
    [][Flushing =>
          EntryOf(menu', current_day) = <<buffer[1], SpaceJoined(Tail(buffer))>>]_vars

\* C3 as amended: every flush of a non-empty buffer under an open day label
\* stores exactly the pair [first buffered line, the remaining lines joined
\* with single spaces and with every space that stands before a comma
\* removed], which is [line, ""] for a single line.
C3_FlushStoresRepairedJoin ==
    [][Flushing =>
          /\ Len(EntryOf(menu', current_day)) = 2
          /\ EntryOf(menu', current_day)
                = <<buffer[1], DropSpaceBeforeComma(SpaceJoined(Tail(buffer)))>>
          /\ Len(buffer) = 1 => EntryOf(menu', current_day) = <<buffer[1], <<>> >>]_vars

\* a finished run that flushed a day of one line and a day of several
C3_Witness ==
    /\ pc = "done"
    /\ \E i, j \in 1..Len(menu) :
          menu[i].dishes[2] = <<>> /\ menu[j].dishes[2] # <<>>

(***************************************************************************)
(* C4                                                                      *)
(***************************************************************************)
C4_ExampleLines == << <<"P","o","n","e","d","e","l","j","e","k",","," ","2",".","6","."," ","n","e","k","a","j">>, <<"J","u","h","a"," ","A">>, <<"G","l","a","v","n","a"," ","B"," ",",","C">> >>

\* C4 as stated: a day header followed by "Juha A" and "Glavna B ,C" yields
\* the entry ["Juha A", "Glavna B, C"].
C4_ExampleWithSpaceAfterComma ==
    pc = "done" /\ lines = C4_ExampleLines =>
        menu = << [day |-> <<"P","o","n","e","d","e","l","j","e","k",","," ","2","."," ","6",".">>,
                   dishes |-> << <<"J","u","h","a"," ","A">>, <<"G","l","a","v","n","a"," ","B",","," ","C">> >>] >>

\* C4 as amended: a day header followed by "Juha A" and "Glavna B ,C" yields
\* the entry ["Juha A", "Glavna B,C"]; in general the main-dish text of every
\* entry is the space-joined text of the lines after the soup line with every
\* space that stands before a comma removed, and nothing inserted.
C4_SpaceBeforeCommaRemoved ==
    LET rd == Reading(lines) IN
    pc = "done" =>
        /\ lines = C4_ExampleLines =>
              menu = << [day |-> <<"P","o","n","e","d","e","l","j","e","k",","," ","2","."," ","6",".">>,
                         dishes |-> << <<"J","u","h","a"," ","A">>, <<"G","l","a","v","n","a"," ","B",",","C">> >>] >>
        /\ \A i \in 1..Len(menu) :
              FilledOf(rd, menu[i].day) # {} =>
                  menu[i].dishes[2] =
                      DropSpaceBeforeComma(SpaceJoined(Tail(
                          Retained(rd, Greatest(FilledOf(rd, menu[i].day))))))

\* the example has been processed and its comma repaired
C4_Witness ==
    /\ pc = "done"
    /\ lines = C4_ExampleLines
    /\ EntryOf(menu, <<"P","o","n","e","d","e","l","j","e","k",","," ","2","."," ","6",".">>) = << <<"J","u","h","a"," ","A">>, <<"G","l","a","v","n","a"," ","B",",","C">> >>

(***************************************************************************)
(* C5                                                                      *)
(***************************************************************************)
\* C5: processing a trimmed line that contains a logo misreading in any case,
\* or that starts with ALERGENI, leaves the day label, the buffer and the
\* mapping unchanged, also when the line has the form of a day header; and the
\* mapping returned is the one clean_menu_text returns for the lines without
\* those lines.
C5_JunkLinesDropped ==
    /\ [][LoopStep /\ JunkLine(lines[idx]) =>
             /\ current_day' = current_day
             /\ buffer' = buffer
             /\ menu' = menu]_vars
    /\ [](pc = "done" =>
             menu = CleanLines(SelectSeq(lines, LAMBDA l : ~JunkLine(l))))

\* a finished run over a junk line that has the form of a day header, a real
\* header and a dish
C5_Witness ==
    /\ pc = "done"
    /\ menu # <<>>
    /\ \E i \in 1..Len(lines) : JunkLine(lines[i]) /\ HasDayPrefix(lines[i])

(***************************************************************************)
(* C6                                                                      *)
(***************************************************************************)
\* C6: a line that is no junk line is treated as a day header (the buffer is
\* flushed and a new day opened) exactly when it starts with a word, a comma,
\* a day number, a dot and a month number; the new label is
\* "<word>, <day>. <month>." and the rest of the line is discarded;
\* "Ponedeljek, 2.6. nekaj" opens the day "Ponedeljek, 2. 6."; any other line
\* leaves the day label and the mapping as they are.
C6_HeaderRecognition ==
    [][LoopStep /\ ~JunkLine(lines[idx]) =>
          /\ HasDayPrefix(lines[idx]) =>
                current_day' = LabelOf(lines[idx]) /\ buffer' = <<>>
          /\ lines[idx] = <<"P","o","n","e","d","e","l","j","e","k",","," ","2",".","6","."," ","n","e","k","a","j">> =>
                current_day' = <<"P","o","n","e","d","e","l","j","e","k",","," ","2","."," ","6",".">>
          /\ ~HasDayPrefix(lines[idx]) =>
                current_day' = current_day /\ menu' = menu]_vars

\* the example header has just opened its day
C6_Witness ==
    /\ pc = "loop"
    /\ idx > 1
    /\ lines[idx - 1] = <<"P","o","n","e","d","e","l","j","e","k",","," ","2",".","6","."," ","n","e","k","a","j">>
    /\ current_day = <<"P","o","n","e","d","e","l","j","e","k",","," ","2","."," ","6",".">>
    /\ buffer = <<>>

(***************************************************************************)
(* C7                                                                      *)
(***************************************************************************)
\* C7: for every line that is neither junk nor a day header, what is appended
\* to the buffer is the line without its trailing run of comma-separated digit
\* groups and the whitespace before it ("Goveja obara 1,2,7" gives
\* "Goveja obara"); a line that does not end in a digit is appended unchanged;
\* a line of which nothing remains is not appended.
C7_AllergenSuffixStripped ==
    [][LoopStep /\ ~JunkLine(lines[idx]) /\ ~HasDayPrefix(lines[idx]) =>
          /\ WithoutSuffix(lines[idx]) # <<>> =>
                buffer' = Append(buffer, WithoutSuffix(lines[idx]))
          /\ WithoutSuffix(lines[idx]) = <<>> => buffer' = buffer
          /\ lines[idx][Len(lines[idx])] \notin Digits =>
                buffer' = Append(buffer, lines[idx])
          /\ lines[idx] = <<"G","o","v","e","j","a"," ","o","b","a","r","a"," ","1",",","2",",","7">> =>
                buffer' = Append(buffer, <<"G","o","v","e","j","a"," ","o","b","a","r","a">>)]_vars

\* the example line has just been buffered without its suffix
C7_Witness ==
    /\ pc = "loop"
    /\ idx > 1
    /\ lines[idx - 1] = <<"G","o","v","e","j","a"," ","o","b","a","r","a"," ","1",",","2",",","7">>
    /\ buffer # <<>>
    /\ buffer[Len(buffer)] = <<"G","o","v","e","j","a"," ","o","b","a","r","a">>

(***************************************************************************)
(* C10                                                                     *)
(***************************************************************************)
\* C10: every entry of the returned mapping is made of the retained content
\* lines that lie between one header carrying its label and the next header,
\* and of nothing else: lines before the first header are in no entry, and the
\* buffer is empty after every flush, so no line passes from one day to the
\* next.
C10_LinesBelongToTheirDay ==
    LET rd == Reading(lines) IN
    /\ pc = "done" =>
          /\ buffer = <<>>
          /\ \A i \in 1..Len(menu) :
                \E h \in HeadersOf(rd, menu[i].day) :
                    /\ Retained(rd, h) # <<>>
                    /\ menu[i].dishes =
                          << Retained(rd, h)[1],
                             DropSpaceBeforeComma(SpaceJoined(Tail(Retained(rd, h)))) >>
    /\ pc = "loop" /\ idx > 1
            /\ ~JunkLine(lines[idx - 1]) /\ HasDayPrefix(lines[idx - 1]) => buffer = <<>>
    /\ pc = "loop"
            /\ (\A i \in 1..(idx - 1) : JunkLine(lines[i]) \/ ~HasDayPrefix(lines[i]))
          => menu = <<>>

\* a finished run whose first line is a dish line before any header, with two
\* days stored after it
C10_Witness ==
    /\ pc = "done"
    /\ Len(menu) = 2
    /\ ~JunkLine(lines[1])
    /\ ~HasDayPrefix(lines[1])
    /\ WithoutSuffix(lines[1]) # <<>>

(***************************************************************************)
(* C8                                                                      *)
(***************************************************************************)
SchemeChars == Range(UpperChars) \cup Range(LowerChars) \cup Digits \cup {"+", "-", "."}

\* an absolute URL: a scheme, a colon, and what the scheme names
IsAbsoluteUrl(u) ==
    \E c \in 2..Len(u) :
        /\ u[c] = ":"
        /\ u[1] \in Range(UpperChars) \cup Range(LowerChars)
        /\ \A j \in 1..(c - 1) : u[j] \in SchemeChars

\* the src names a menu image: it contains "meni" and ends in .jpg or .jpeg,
\* in any case
NamesMenuImage(src) ==
    /\ \E i \in 1..Len(src) :
          i + 3 <= Len(src) /\ Lower(SubSeq(src, i, i + 3)) = <<"m","e","n","i">>
    /\ \/ Len(src) >= 4 /\ Lower(SubSeq(src, Len(src) - 3, Len(src))) = <<".","j","p","g">>
       \/ Len(src) >= 5 /\ Lower(SubSeq(src, Len(src) - 4, Len(src))) = <<".","j","p","e","g">>

\* C8: the URL get_latest_menu_image_url returns comes from the first <img>
\* whose src names a menu image, and it is absolute: that src itself when it is
\* an absolute URL, and otherwise the homepage origin followed by the src, with
\* a "/" between them unless the src starts with one.
C8_ReturnsAbsoluteUrl ==
    image_url # None =>
        LET src == imgs[img_k]
        IN  /\ NamesMenuImage(src)
            /\ \A j \in 1..(img_k - 1) : ~NamesMenuImage(imgs[j])
            /\ IsAbsoluteUrl(image_url)
            /\ IsAbsoluteUrl(src) => image_url = src
            /\ ~IsAbsoluteUrl(src) =>
                  image_url = HOMEPAGE_URL
                      \o (IF src[1] = "/" THEN src ELSE <<"/">> \o src)

(***************************************************************************)
(* C9                                                                      *)
(***************************************************************************)
\* C9: whenever a stage of the pipeline raised, the entry point has logged the
\* error and the process has ended with a status other than zero.
C9_NonZeroExitOnException ==
    pc = "exited" /\ raised # "none" =>
        /\ log # <<>> /\ log[Len(log)] = "Error"
        /\ exit_status # 0

====
